---- MODULE Spec2Model ----
(***************************************************************************)
(* A model of addlicense: the header detector, the year parser/updater,     *)
(* the header renderer, the comment-style resolver, the per-file mutate and *)
(* check paths, and the channel/errgroup pipeline of main.                  *)
(*                                                                          *)
(* File contents, paths and template output are byte sequences; a byte is   *)
(* a one-character string.                                                  *)
(***************************************************************************)
EXTENDS Integers, Sequences, FiniteSets, TLC

VARIABLES
    cfg,      \* the flags of the run: template, licenseData, update; SpecRun: -l, -f too
    path,     \* path of the file under the single-file specification
    file,     \* that file: [content, perm]
    adds,     \* how many times addLicense has been applied to it
    last,     \* what the last operation on it saw and returned
    fn,       \* SpecFn, SpecTmpl: the arguments and result of the last function call
    par,      \* SpecPar: how many files are to walk, queued, in a running task, done
    checkonly,   \* SpecRun: the -check flag
    fs0,         \* the files as they were when the run began
    fs,          \* the files of the run, by path: [content, perm]
    todo,        \* the paths walk has still to deliver
    ch,          \* the channel of *file, as the queue of what it holds
    chClosed,    \* close(ch) has happened
    tasks,       \* the goroutines wg.Go has started, in the order of their start
    gErr,        \* the error the errgroup keeps: the first one a task returned
    writes,      \* how many times a task has called ioutil.WriteFile
    mainPc,      \* where the main goroutine is
    collPc,      \* where the collector goroutine (the func literal of main) is
    doneClosed,  \* close(done) has happened
    exit         \* "none" while the process runs, then its exit status, "0" or "1"

fileVars == <<cfg, path, file, adds, last>>
runVars == <<par, checkonly, fs0, fs, todo, ch, chClosed, tasks, gErr, writes, mainPc, collPc,
             doneClosed, exit>>
vars == <<cfg, path, file, adds, last, fn, par, checkonly, fs0, fs, todo, ch, chClosed, tasks,
          gErr, writes, mainPc, collPc, doneClosed, exit>>

----------------------------------------------------------------------------
(* Bounds of the model *)

MaxPieces == 2      \* a file content is built from at most this many pieces
MaxAdds == 2        \* addLicense is applied at most this many times to a file
MaxFiles == 2       \* walk delivers at most this many files in a run

----------------------------------------------------------------------------
(* bytes, strings *)

Min(S) == CHOOSE m \in S : \A k \in S : m <= k

\* the ASCII letters unicode.ToLower changes
lowerOf ==
    "A" :> "a" @@ "B" :> "b" @@ "C" :> "c" @@ "D" :> "d" @@ "E" :> "e" @@
    "F" :> "f" @@ "G" :> "g" @@ "H" :> "h" @@ "I" :> "i" @@ "J" :> "j" @@
    "K" :> "k" @@ "L" :> "l" @@ "M" :> "m" @@ "N" :> "n" @@ "O" :> "o" @@
    "P" :> "p" @@ "Q" :> "q" @@ "R" :> "r" @@ "S" :> "s" @@ "T" :> "t" @@
    "U" :> "u" @@ "V" :> "v" @@ "W" :> "w" @@ "X" :> "x" @@ "Y" :> "y" @@
    "Z" :> "z"

\* unicode.ToLower on one ASCII byte
ToLowerByte(c) == IF c \in DOMAIN lowerOf THEN lowerOf[c] ELSE c

\* bytes.ToLower / strings.ToLower
ToLower(b) == [i \in 1..Len(b) |-> ToLowerByte(b[i])]

\* k occurs in b at (1-based) offset i
MatchAt(b, i, k) ==
    /\ i >= 1
    /\ i + Len(k) - 1 <= Len(b)
    /\ \A j \in 1..Len(k) : b[i + j - 1] = k[j]

\* bytes.Contains
Contains(b, k) ==
    \E i \in 1..(Len(b) - Len(k) + 1) : \A j \in 1..Len(k) : b[i + j - 1] = k[j]

\* bytes.Index, 1-based; 0 when k does not occur in b
Index(b, k) ==
    LET at == {i \in 1..(Len(b) - Len(k) + 1) : MatchAt(b, i, k)}
    IN  IF at = {} THEN 0 ELSE Min(at)

\* strings.HasPrefix
HasPrefix(b, k) == MatchAt(b, 1, k)

RECURSIVE Concat(_)
Concat(ss) == IF ss = <<>> THEN <<>> ELSE Head(ss) \o Concat(Tail(ss))

\* string(b): the bytes as one string value
RECURSIVE Str(_)
Str(b) == IF b = <<>> THEN "" ELSE Head(b) \o Str(Tail(b))

unicodeSpace == {" ", "\t", "\n", "\r", "\f"}

\* strings.TrimRightFunc(s, unicode.IsSpace)
RECURSIVE TrimRightSpace(_)
TrimRightSpace(s) ==
    IF s # <<>> /\ s[Len(s)] \in unicodeSpace
    THEN TrimRightSpace(SubSeq(s, 1, Len(s) - 1))
    ELSE s

----------------------------------------------------------------------------
(* Header detector *)

hasLicenseLimit == 1000
parseYearLimit == 1000

kwCopyright == <<"c", "o", "p", "y", "r", "i", "g", "h", "t">>
kwMozilla == <<"m", "o", "z", "i", "l", "l", "a", " ", "p", "u", "b", "l", "i", "c">>
kwSpdx == <<"s", "p", "d", "x", "-", "l", "i", "c", "e", "n", "s", "e", "-", "i", "d", "e", "n", "t", "i", "f", "i", "e", "r">>

\* hasLicense scanning the whole file instead of its first 1000 bytes
hasLicense_wholeFile(b) ==
    LET low == ToLower(b)
    IN  \/ Contains(low, kwCopyright)
        \/ Contains(low, kwMozilla)
        \/ Contains(low, kwSpdx)

hasLicense(b) ==
    LET n == IF Len(b) < hasLicenseLimit THEN Len(b) ELSE hasLicenseLimit
        low == ToLower(SubSeq(b, 1, n))
    IN  \/ Contains(low, kwCopyright)
        \/ Contains(low, kwMozilla)
        \/ Contains(low, kwSpdx)

genMid == <<" ", "C", "o", "d", "e", " ", "g", "e", "n", "e", "r", "a", "t", "e", "d", " ">>
genEnd == <<" ", "D", "O", " ", "N", "O", "T", " ", "E", "D", "I", "T", ".">>
cargoRazeLine == <<"D", "O", " ", "N", "O", "T", " ", "E", "D", "I", "T", "!", " ", "R", "e", "p", "l", "a", "c", "e", "d", " ", "o", "n", " ", "r", "u", "n", "s", " ", "o", "f", " ", "c", "a", "r", "g", "o", "-", "r", "a", "z", "e">>

\* (?m)^ : the offsets at which a line starts
LineStarts(b) == {1} \cup {i + 1 : i \in {j \in 1..Len(b) : b[j] = "\n"}}

\* (?m)$ : the offset of the last byte of the line that starts at s
LineEnd(b, s) ==
    LET nl == {i \in s..Len(b) : b[i] = "\n"}
    IN  IF nl = {} THEN Len(b) ELSE Min(nl) - 1

\* (?m)^.{1,2} Code generated .* DO NOT EDIT\.$
goGenerated(b) ==
    \E s \in LineStarts(b) : \E p \in {1, 2} :
        /\ MatchAt(b, s + p, genMid)
        /\ LET e == LineEnd(b, s)
           IN  /\ e - Len(genEnd) + 1 >= s + p + Len(genMid)
               /\ MatchAt(b, e - Len(genEnd) + 1, genEnd)

\* (?m)^DO NOT EDIT! Replaced on runs of cargo-raze$
cargoRazeGenerated(b) ==
    \E s \in LineStarts(b) :
        /\ MatchAt(b, s, cargoRazeLine)
        /\ LineEnd(b, s) = s + Len(cargoRazeLine) - 1

isGenerated(b) == goGenerated(b) \/ cargoRazeGenerated(b)

digits == {"0", "1", "2", "3", "4", "5", "6", "7", "8", "9"}

\* [\d]{4} matches b at offset p
FourDigits(b, p) == p >= 1 /\ p + 3 <= Len(b) /\ \A j \in 0..3 : b[p + j] \in digits

\* the leftmost match of reLicense, (([\d]{4})-)?([\d]{4}), in b:
\* at the first offset where four digits start, the optional group is taken
\* when "dddd-dddd" is there.
reLicense(b) ==
    LET starts == {p \in 1..(Len(b) - 3) : FourDigits(b, p)}
    IN  IF starts = {}
        THEN [found |-> FALSE, at |-> 0, g0 |-> <<>>, g2 |-> <<>>, g3 |-> <<>>]
        ELSE LET p == Min(starts)
                 ranged == MatchAt(b, p + 4, <<"-">>) /\ FourDigits(b, p + 5)
             IN  IF ranged
                 THEN [found |-> TRUE, at |-> p, g0 |-> SubSeq(b, p, p + 8),
                       g2 |-> SubSeq(b, p, p + 3), g3 |-> SubSeq(b, p + 5, p + 8)]
                 ELSE [found |-> TRUE, at |-> p, g0 |-> SubSeq(b, p, p + 3),
                       g2 |-> <<>>, g3 |-> SubSeq(b, p, p + 3)]

\* nil is [found |-> FALSE]
parseLicenseYear(b) ==
    LET n == IF Len(b) < parseYearLimit THEN Len(b) ELSE parseYearLimit
        m == reLicense(SubSeq(b, 1, n))
    IN  IF m.found
        THEN [found |-> TRUE,
              currentString |-> m.g0,
              lastModification |-> m.g3,
              creation |-> IF m.g2 # <<>> THEN m.g2 ELSE m.g3]
        ELSE [found |-> FALSE, currentString |-> <<>>,
              lastModification |-> <<>>, creation |-> <<>>]

\* isOutdatedLicense taking a header without year for an outdated one
isOutdatedLicense_noYear(b, currentYear) ==
    LET years == parseLicenseYear(b)
    IN  IF years.found THEN years.lastModification # currentYear ELSE TRUE

isOutdatedLicense(b, currentYear) ==
    LET years == parseLicenseYear(b)
    IN  IF years.found THEN years.lastModification # currentYear ELSE FALSE

\* updateExistingLicense keeping the last-modification year of the old token
\* as the start of the new range
updateExistingLicense_fromLast(b, currentYear) ==
    LET years == parseLicenseYear(b)
    IN  IF ~years.found
        THEN [b |-> <<>>, err |-> "cannot parse license header"]
        ELSE IF years.creation = currentYear \/ years.lastModification = currentYear
        THEN [b |-> b, err |-> "nil"]
        ELSE LET i == Index(b, years.currentString)
                 newYearString == years.lastModification \o <<"-">> \o currentYear
             IN  [b |-> SubSeq(b, 1, i - 1) \o newYearString
                          \o SubSeq(b, i + Len(years.currentString), Len(b)),
                  err |-> "nil"]

updateExistingLicense(b, currentYear) ==
    LET years == parseLicenseYear(b)
    IN  IF ~years.found
        THEN [b |-> <<>>, err |-> "cannot parse license header"]
        ELSE IF years.creation = currentYear \/ years.lastModification = currentYear
        THEN [b |-> b, err |-> "nil"]
        ELSE LET i == Index(b, years.currentString)
                 newYearString == years.creation \o <<"-">> \o currentYear
             IN  [b |-> SubSeq(b, 1, i - 1) \o newYearString
                          \o SubSeq(b, i + Len(years.currentString), Len(b)),
                  err |-> "nil"]

----------------------------------------------------------------------------
(* Templates and the header renderer *)

\* A parsed template is a sequence of nodes: a text node [text |-> bytes]
\* or an action node [field |-> "Year" | "Holder" | "SPDXID"].
TextNode(s) == [text |-> s]
FieldNode(f) == [field |-> f]

\* the replacements of html/template in HTML text: htmlReplacementTable
htmlReplacement ==
    "\"" :> <<"&", "#", "3", "4", ";">> @@
    "&" :> <<"&", "a", "m", "p", ";">> @@
    "'" :> <<"&", "#", "3", "9", ";">> @@
    "+" :> <<"&", "#", "4", "3", ";">> @@
    "<" :> <<"&", "l", "t", ";">> @@
    ">" :> <<"&", "g", "t", ";">>

\* the escaper html/template adds to an action in HTML text
RECURSIVE htmlEscaper(_)
htmlEscaper(s) ==
    IF s = <<>> THEN <<>>
    ELSE (IF Head(s) \in DOMAIN htmlReplacement THEN htmlReplacement[Head(s)]
          ELSE <<Head(s)>>) \o htmlEscaper(Tail(s))

\* the value of the field an action node prints
fieldOf(n, d) ==
    CASE n.field = "Year" -> d.Year
      [] n.field = "Holder" -> d.Holder
      [] n.field = "SPDXID" -> d.SPDXID

\* t.Execute(&buf, d) in executeTemplate, t a *template.Template of
\* html/template: a text node is copied, the value of a field node goes
\* through the HTML escaper (the nodes of the model's templates are HTML text)
RECURSIVE Execute(_, _)
Execute(t, d) ==
    IF t = <<>> THEN <<>>
    ELSE (IF "text" \in DOMAIN Head(t) THEN Head(t).text
          ELSE htmlEscaper(fieldOf(Head(t), d))) \o Execute(Tail(t), d)

\* bufio.ScanLines: one optional carriage return before the newline is dropped
dropCR(s) == IF s # <<>> /\ s[Len(s)] = "\r" THEN SubSeq(s, 1, Len(s) - 1) ELSE s

\* the tokens of bufio.NewScanner(&buf): the lines of buf, without their
\* newline; a last line without newline is a token when it is not empty
RECURSIVE ScanLines(_)
ScanLines(s) ==
    IF s = <<>> THEN <<>>
    ELSE LET nl == {i \in 1..Len(s) : s[i] = "\n"}
         IN  IF nl = {} THEN <<dropCR(s)>>
             ELSE <<dropCR(SubSeq(s, 1, Min(nl) - 1))>>
                      \o ScanLines(SubSeq(s, Min(nl) + 1, Len(s)))

\* fmt.Fprintln(&out, s)
Fprintln(out, s) == out \o s \o <<"\n">>

RECURSIVE PrefixLines(_, _, _)
PrefixLines(out, lines, mid) ==
    IF lines = <<>> THEN out
    ELSE PrefixLines(Fprintln(out, TrimRightSpace(mid \o Head(lines))), Tail(lines), mid)

\* executeTemplate printing the top and bottom lines also when they are empty
executeTemplate_emptyTopBot(t, d, top, mid, bot) ==
    Fprintln(Fprintln(PrefixLines(Fprintln(<<>>, top), ScanLines(Execute(t, d)), mid), bot),
             <<>>)

executeTemplate(t, d, top, mid, bot) ==
    LET buf == Execute(t, d)
        o1 == IF top # <<>> THEN Fprintln(<<>>, top) ELSE <<>>
        o2 == PrefixLines(o1, ScanLines(buf), mid)
        o3 == IF bot # <<>> THEN Fprintln(o2, bot) ELSE o2
    IN  Fprintln(o3, <<>>)

tmplBSD == <<
    TextNode(<<"C", "o", "p", "y", "r", "i", "g", "h", "t", " ", "(", "c", ")", " ">>),
    FieldNode("Year"),
    TextNode(<<" ">>),
    FieldNode("Holder"),
    TextNode(<<" ", "A", "l", "l", " ", "r", "i", "g", "h", "t", "s", " ", "r", "e", "s", "e", "r", "v", "e", "d", ".", "\n", "U", "s", "e", " ", "o", "f", " ", "t", "h", "i", "s", " ", "s", "o", "u", "r", "c", "e", " ", "c", "o", "d", "e", " ", "i", "s", " ", "g", "o", "v", "e", "r", "n", "e", "d", " ", "b", "y", " ", "a", " ", "B", "S", "D", "-", "s", "t", "y", "l", "e", "\n", "l", "i", "c", "e", "n", "s", "e", " ", "t", "h", "a", "t", " ", "c", "a", "n", " ", "b", "e", " ", "f", "o", "u", "n", "d", " ", "i", "n", " ", "t", "h", "e", " ", "L", "I", "C", "E", "N", "S", "E", " ", "f", "i", "l", "e", ".">>) >>

\* the template the tests of addLicense and licenseHeader parse
tmplHYS == <<FieldNode("Holder"), FieldNode("Year"), FieldNode("SPDXID")>>

tmplApache == <<
    TextNode(<<"C", "o", "p", "y", "r", "i", "g", "h", "t", " ">>),
    FieldNode("Year"),
    TextNode(<<" ">>),
    FieldNode("Holder"),
    TextNode(<<"\n", "\n", "L", "i", "c", "e", "n", "s", "e", "d", " ", "u", "n", "d", "e", "r", " ", "t", "h", "e", " ", "A", "p", "a", "c", "h", "e", " ", "L", "i", "c", "e", "n", "s", "e", ",", " ", "V", "e", "r", "s", "i", "o", "n", " ", "2", ".", "0", " ", "(", "t", "h", "e", " ", "\"", "L", "i", "c", "e", "n", "s", "e", "\"", ")", ";", "\n", "y", "o", "u", " ", "m", "a", "y", " ", "n", "o", "t", " ", "u", "s", "e", " ", "t", "h", "i", "s", " ", "f", "i", "l", "e", " ", "e", "x", "c", "e", "p", "t", " ", "i", "n", " ", "c", "o", "m", "p", "l", "i", "a", "n", "c", "e", " ", "w", "i", "t", "h", " ", "t", "h", "e", " ", "L", "i", "c", "e", "n", "s", "e", ".", "\n", "Y", "o", "u", " ", "m", "a", "y", " ", "o", "b", "t", "a", "i", "n", " ", "a", " ", "c", "o", "p", "y", " ", "o", "f", " ", "t", "h", "e", " ", "L", "i", "c", "e", "n", "s", "e", " ", "a", "t", "\n", "\n", " ", " ", " ", " ", " ", "h", "t", "t", "p", ":", "/", "/", "w", "w", "w", ".", "a", "p", "a", "c", "h", "e", ".", "o", "r", "g", "/", "l", "i", "c", "e", "n", "s", "e", "s", "/", "L", "I", "C", "E", "N", "S", "E", "-", "2", ".", "0", "\n", "\n", "U", "n", "l", "e", "s", "s", " ", "r", "e", "q", "u", "i", "r", "e", "d", " ", "b", "y", " ", "a", "p", "p", "l", "i", "c", "a", "b", "l", "e", " ", "l", "a", "w", " ", "o", "r", " ", "a", "g", "r", "e", "e", "d", " ", "t", "o", " ", "i", "n", " ", "w", "r", "i", "t", "i", "n", "g", ",", " ", "s", "o", "f", "t", "w", "a", "r", "e", "\n", "d", "i", "s", "t", "r", "i", "b", "u", "t", "e", "d", " ", "u", "n", "d", "e", "r", " ", "t", "h", "e", " ", "L", "i", "c", "e", "n", "s", "e", " ", "i", "s", " ", "d", "i", "s", "t", "r", "i", "b", "u", "t", "e", "d", " ", "o", "n", " ", "a", "n", " ", "\"", "A", "S", " ", "I", "S", "\"", " ", "B", "A", "S", "I", "S", ",", "\n", "W", "I", "T", "H", "O", "U", "T", " ", "W", "A", "R", "R", "A", "N", "T", "I", "E", "S", " ", "O", "R", " ", "C", "O", "N", "D", "I", "T", "I", "O", "N", "S", " ", "O", "F", " ", "A", "N", "Y", " ", "K", "I", "N", "D", ",", " ", "e", "i", "t", "h", "e", "r", " ", "e", "x", "p", "r", "e", "s", "s", " ", "o", "r", " ", "i", "m", "p", "l", "i", "e", "d", ".", "\n", "S", "e", "e", " ", "t", "h", "e", " ", "L", "i", "c", "e", "n", "s", "e", " ", "f", "o", "r", " ", "t", "h", "e", " ", "s", "p", "e", "c", "i", "f", "i", "c", " ", "l", "a", "n", "g", "u", "a", "g", "e", " ", "g", "o", "v", "e", "r", "n", "i", "n", "g", " ", "p", "e", "r", "m", "i", "s", "s", "i", "o", "n", "s", " ", "a", "n", "d", "\n", "l", "i", "m", "i", "t", "a", "t", "i", "o", "n", "s", " ", "u", "n", "d", "e", "r", " ", "t", "h", "e", " ", "L", "i", "c", "e", "n", "s", "e", ".">>) >>

tmplMIT == <<
    TextNode(<<"C", "o", "p", "y", "r", "i", "g", "h", "t", " ", "(", "c", ")", " ">>),
    FieldNode("Year"),
    TextNode(<<" ">>),
    FieldNode("Holder"),
    TextNode(<<"\n", "\n", "P", "e", "r", "m", "i", "s", "s", "i", "o", "n", " ", "i", "s", " ", "h", "e", "r", "e", "b", "y", " ", "g", "r", "a", "n", "t", "e", "d", ",", " ", "f", "r", "e", "e", " ", "o", "f", " ", "c", "h", "a", "r", "g", "e", ",", " ", "t", "o", " ", "a", "n", "y", " ", "p", "e", "r", "s", "o", "n", " ", "o", "b", "t", "a", "i", "n", "i", "n", "g", " ", "a", " ", "c", "o", "p", "y", " ", "o", "f", "\n", "t", "h", "i", "s", " ", "s", "o", "f", "t", "w", "a", "r", "e", " ", "a", "n", "d", " ", "a", "s", "s", "o", "c", "i", "a", "t", "e", "d", " ", "d", "o", "c", "u", "m", "e", "n", "t", "a", "t", "i", "o", "n", " ", "f", "i", "l", "e", "s", " ", "(", "t", "h", "e", " ", "\"", "S", "o", "f", "t", "w", "a", "r", "e", "\"", ")", ",", " ", "t", "o", " ", "d", "e", "a", "l", " ", "i", "n", "\n", "t", "h", "e", " ", "S", "o", "f", "t", "w", "a", "r", "e", " ", "w", "i", "t", "h", "o", "u", "t", " ", "r", "e", "s", "t", "r", "i", "c", "t", "i", "o", "n", ",", " ", "i", "n", "c", "l", "u", "d", "i", "n", "g", " ", "w", "i", "t", "h", "o", "u", "t", " ", "l", "i", "m", "i", "t", "a", "t", "i", "o", "n", " ", "t", "h", "e", " ", "r", "i", "g", "h", "t", "s", " ", "t", "o", "\n", "u", "s", "e", ",", " ", "c", "o", "p", "y", ",", " ", "m", "o", "d", "i", "f", "y", ",", " ", "m", "e", "r", "g", "e", ",", " ", "p", "u", "b", "l", "i", "s", "h", ",", " ", "d", "i", "s", "t", "r", "i", "b", "u", "t", "e", ",", " ", "s", "u", "b", "l", "i", "c", "e", "n", "s", "e", ",", " ", "a", "n", "d", "/", "o", "r", " ", "s", "e", "l", "l", " ", "c", "o", "p", "i", "e", "s", " ", "o", "f", "\n", "t", "h", "e", " ", "S", "o", "f", "t", "w", "a", "r", "e", ",", " ", "a", "n", "d", " ", "t", "o", " ", "p", "e", "r", "m", "i", "t", " ", "p", "e", "r", "s", "o", "n", "s", " ", "t", "o", " ", "w", "h", "o", "m", " ", "t", "h", "e", " ", "S", "o", "f", "t", "w", "a", "r", "e", " ", "i", "s", " ", "f", "u", "r", "n", "i", "s", "h", "e", "d", " ", "t", "o", " ", "d", "o", " ", "s", "o", ",", "\n", "s", "u", "b", "j", "e", "c", "t", " ", "t", "o", " ", "t", "h", "e", " ", "f", "o", "l", "l", "o", "w", "i", "n", "g", " ", "c", "o", "n", "d", "i", "t", "i", "o", "n", "s", ":", "\n", "\n", "T", "h", "e", " ", "a", "b", "o", "v", "e", " ", "c", "o", "p", "y", "r", "i", "g", "h", "t", " ", "n", "o", "t", "i", "c", "e", " ", "a", "n", "d", " ", "t", "h", "i", "s", " ", "p", "e", "r", "m", "i", "s", "s", "i", "o", "n", " ", "n", "o", "t", "i", "c", "e", " ", "s", "h", "a", "l", "l", " ", "b", "e", " ", "i", "n", "c", "l", "u", "d", "e", "d", " ", "i", "n", " ", "a", "l", "l", "\n", "c", "o", "p", "i", "e", "s", " ", "o", "r", " ", "s", "u", "b", "s", "t", "a", "n", "t", "i", "a", "l", " ", "p", "o", "r", "t", "i", "o", "n", "s", " ", "o", "f", " ", "t", "h", "e", " ", "S", "o", "f", "t", "w", "a", "r", "e", ".", "\n", "\n", "T", "H", "E", " ", "S", "O", "F", "T", "W", "A", "R", "E", " ", "I", "S", " ", "P", "R", "O", "V", "I", "D", "E", "D", " ", "\"", "A", "S", " ", "I", "S", "\"", ",", " ", "W", "I", "T", "H", "O", "U", "T", " ", "W", "A", "R", "R", "A", "N", "T", "Y", " ", "O", "F", " ", "A", "N", "Y", " ", "K", "I", "N", "D", ",", " ", "E", "X", "P", "R", "E", "S", "S", " ", "O", "R", "\n", "I", "M", "P", "L", "I", "E", "D", ",", " ", "I", "N", "C", "L", "U", "D", "I", "N", "G", " ", "B", "U", "T", " ", "N", "O", "T", " ", "L", "I", "M", "I", "T", "E", "D", " ", "T", "O", " ", "T", "H", "E", " ", "W", "A", "R", "R", "A", "N", "T", "I", "E", "S", " ", "O", "F", " ", "M", "E", "R", "C", "H", "A", "N", "T", "A", "B", "I", "L", "I", "T", "Y", ",", " ", "F", "I", "T", "N", "E", "S", "S", "\n", "F", "O", "R", " ", "A", " ", "P", "A", "R", "T", "I", "C", "U", "L", "A", "R", " ", "P", "U", "R", "P", "O", "S", "E", " ", "A", "N", "D", " ", "N", "O", "N", "I", "N", "F", "R", "I", "N", "G", "E", "M", "E", "N", "T", ".", " ", "I", "N", " ", "N", "O", " ", "E", "V", "E", "N", "T", " ", "S", "H", "A", "L", "L", " ", "T", "H", "E", " ", "A", "U", "T", "H", "O", "R", "S", " ", "O", "R", "\n", "C", "O", "P", "Y", "R", "I", "G", "H", "T", " ", "H", "O", "L", "D", "E", "R", "S", " ", "B", "E", " ", "L", "I", "A", "B", "L", "E", " ", "F", "O", "R", " ", "A", "N", "Y", " ", "C", "L", "A", "I", "M", ",", " ", "D", "A", "M", "A", "G", "E", "S", " ", "O", "R", " ", "O", "T", "H", "E", "R", " ", "L", "I", "A", "B", "I", "L", "I", "T", "Y", ",", " ", "W", "H", "E", "T", "H", "E", "R", "\n", "I", "N", " ", "A", "N", " ", "A", "C", "T", "I", "O", "N", " ", "O", "F", " ", "C", "O", "N", "T", "R", "A", "C", "T", ",", " ", "T", "O", "R", "T", " ", "O", "R", " ", "O", "T", "H", "E", "R", "W", "I", "S", "E", ",", " ", "A", "R", "I", "S", "I", "N", "G", " ", "F", "R", "O", "M", ",", " ", "O", "U", "T", " ", "O", "F", " ", "O", "R", " ", "I", "N", "\n", "C", "O", "N", "N", "E", "C", "T", "I", "O", "N", " ", "W", "I", "T", "H", " ", "T", "H", "E", " ", "S", "O", "F", "T", "W", "A", "R", "E", " ", "O", "R", " ", "T", "H", "E", " ", "U", "S", "E", " ", "O", "R", " ", "O", "T", "H", "E", "R", " ", "D", "E", "A", "L", "I", "N", "G", "S", " ", "I", "N", " ", "T", "H", "E", " ", "S", "O", "F", "T", "W", "A", "R", "E", ".">>) >>

tmplMPL == <<
    TextNode(<<"T", "h", "i", "s", " ", "S", "o", "u", "r", "c", "e", " ", "C", "o", "d", "e", " ", "F", "o", "r", "m", " ", "i", "s", " ", "s", "u", "b", "j", "e", "c", "t", " ", "t", "o", " ", "t", "h", "e", " ", "t", "e", "r", "m", "s", " ", "o", "f", " ", "t", "h", "e", " ", "M", "o", "z", "i", "l", "l", "a", " ", "P", "u", "b", "l", "i", "c", "\n", "L", "i", "c", "e", "n", "s", "e", ",", " ", "v", ".", " ", "2", ".", "0", ".", " ", "I", "f", " ", "a", " ", "c", "o", "p", "y", " ", "o", "f", " ", "t", "h", "e", " ", "M", "P", "L", " ", "w", "a", "s", " ", "n", "o", "t", " ", "d", "i", "s", "t", "r", "i", "b", "u", "t", "e", "d", " ", "w", "i", "t", "h", " ", "t", "h", "i", "s", "\n", "f", "i", "l", "e", ",", " ", "Y", "o", "u", " ", "c", "a", "n", " ", "o", "b", "t", "a", "i", "n", " ", "o", "n", "e", " ", "a", "t", " ", "h", "t", "t", "p", "s", ":", "/", "/", "m", "o", "z", "i", "l", "l", "a", ".", "o", "r", "g", "/", "M", "P", "L", "/", "2", ".", "0", "/", ".">>) >>

----------------------------------------------------------------------------
(* Comment-style resolver *)

\* filepath.Ext: the suffix that starts at the last dot of the last element
Ext(name) ==
    LET seps == {i \in 1..Len(name) : name[i] = "/"}
        from == IF seps = {} THEN 1 ELSE (CHOOSE m \in seps : \A k \in seps : m >= k) + 1
        dots == {i \in from..Len(name) : name[i] = "."}
    IN  IF dots = {} THEN <<>>
        ELSE SubSeq(name, CHOOSE m \in dots : \A k \in dots : m >= k, Len(name))

\* filepath.Base
RECURSIVE Base(_)
Base(name) ==
    IF name = <<>> THEN <<".">>
    ELSE IF name[Len(name)] = "/"
    THEN (IF Len(name) = 1 THEN <<"/">> ELSE Base(SubSeq(name, 1, Len(name) - 1)))
    ELSE LET seps == {i \in 1..Len(name) : name[i] = "/"}
         IN  IF seps = {} THEN name
             ELSE SubSeq(name, (CHOOSE m \in seps : \A k \in seps : m >= k) + 1, Len(name))

\* fileExtension with the basename of a path without extension taken as it is
fileExtension_baseAsIs(name) ==
    IF Ext(name) # <<>> THEN Str(ToLower(Ext(name))) ELSE Str(Base(name))

fileExtension(name) ==
    IF Ext(name) # <<>> THEN Str(ToLower(Ext(name))) ELSE Str(ToLower(Base(name)))

\* nil is [nil |-> TRUE]; the error of executeTemplate is always nil for the
\* templates of the model
licenseHeader(p, tmpl, data) ==
    LET ext == fileExtension(p)
        lic(top, mid, bot) == [nil |-> FALSE, lic |-> executeTemplate(tmpl, data, top, mid, bot)]
    IN  CASE ext \in {".c", ".h", ".gv"} ->
                lic(<<"/", "*">>, <<" ", "*", " ">>, <<" ", "*", "/">>)
          [] ext \in {".js", ".mjs", ".cjs", ".jsx", ".tsx", ".css", ".scss", ".sass", ".tf", ".ts"} ->
                lic(<<"/", "*", "*">>, <<" ", "*", " ">>, <<" ", "*", "/">>)
          [] ext \in {".cc", ".cpp", ".cs", ".go", ".hcl", ".hh", ".hpp", ".java", ".m", ".mm",
                      ".proto", ".rs", ".scala", ".swift", ".dart", ".groovy", ".kt", ".kts",
                      ".v", ".sv"} ->
                lic(<<>>, <<"/", "/", " ">>, <<>>)
          [] ext \in {".py", ".sh", ".yaml", ".yml", ".dockerfile", "dockerfile", ".rb",
                      "gemfile", ".tcl", ".bzl"} ->
                lic(<<>>, <<"#", " ">>, <<>>)
          [] ext \in {".el", ".lisp"} ->
                lic(<<>>, <<";", ";", " ">>, <<>>)
          [] ext \in {".erl"} ->
                lic(<<>>, <<"%", " ">>, <<>>)
          [] ext \in {".hs", ".sql", ".sdl"} ->
                lic(<<>>, <<"-", "-", " ">>, <<>>)
          [] ext \in {".html", ".xml", ".vue", ".wxi", ".wxl", ".wxs"} ->
                lic(<<"<", "!", "-", "-">>, <<" ">>, <<"-", "-", ">">>)
          [] ext \in {".php"} ->
                lic(<<>>, <<"/", "/", " ">>, <<>>)
          [] ext \in {".ml", ".mli", ".mll", ".mly"} ->
                lic(<<"(", "*", "*">>, <<" ", " ", " ">>, <<"*", ")">>)
          [] OTHER -> [nil |-> TRUE, lic |-> <<>>]

----------------------------------------------------------------------------
(* Mutation engine *)

head == <<
    <<"#", "!">>,
    <<"<", "?", "x", "m", "l">>,
    <<"<", "!", "d", "o", "c", "t", "y", "p", "e">>,
    <<"#", " ", "e", "n", "c", "o", "d", "i", "n", "g", ":">>,
    <<"#", " ", "f", "r", "o", "z", "e", "n", "_", "s", "t", "r", "i", "n", "g", "_", "l", "i", "t", "e", "r", "a", "l", ":">>,
    <<"<", "?", "p", "h", "p">>,
    <<"#", " ", "e", "s", "c", "a", "p", "e">>,
    <<"#", " ", "s", "y", "n", "t", "a", "x">> >>

\* hashBang returning the first line whatever it starts with
hashBang_anyLine(b) ==
    LET nl == {i \in 1..Len(b) : b[i] = "\n"}
    IN  IF nl = {} THEN b ELSE SubSeq(b, 1, Min(nl))

\* nil is <<>>
hashBang(b) ==
    LET nl == {i \in 1..Len(b) : b[i] = "\n"}
        line == IF nl = {} THEN b ELSE SubSeq(b, 1, Min(nl))
        first == ToLower(line)
    IN  IF \E i \in 1..Len(head) : HasPrefix(first, head[i]) THEN line ELSE <<>>

\* A file is [content, perm]; perm is "rw", "rwx" (also executable), "r"
\* (read-only) or "w" (not readable).
canRead(perm) == perm \in {"rw", "rwx", "r"}
canWrite(perm) == perm \in {"rw", "rwx", "w"}

\* ioutil.ReadFile fails on a file that is not readable.
ReadFile(f) ==
    IF canRead(f.perm) THEN [b |-> f.content, err |-> "nil"]
    ELSE [b |-> <<>>, err |-> "read"]

\* ioutil.WriteFile on an existing file: open fails on a file that is not
\* writable and leaves it as it is; otherwise the content is replaced and the
\* permission argument is not used (it applies to a file that is created).
\* WriteFile leaving the file with the mode of a file it creates by default
WriteFile_defaultMode(f, b, fmode) ==
    IF canWrite(f.perm) THEN [file |-> [content |-> b, perm |-> "rw"], err |-> "nil"]
    ELSE [file |-> f, err |-> "write"]

WriteFile(f, b, fmode) ==
    IF canWrite(f.perm) THEN [file |-> [content |-> b, perm |-> f.perm], err |-> "nil"]
    ELSE [file |-> f, err |-> "write"]

\* the registry of the built-in templates, by license name
licenseTemplate ==
    "apache" :> tmplApache @@ "mit" :> tmplMIT @@ "bsd" :> tmplBSD @@ "mpl" :> tmplMPL

\* fetchTemplate(license, templateFile); tf is the file at templateFile,
\* [content, perm], or <<>> when there is none. The template is returned as
\* main parses it, "" as <<>>; the template files of the model hold text
\* without actions.
fetchTemplate(license, templateFile, tf) ==
    IF templateFile # <<>>
    THEN (IF tf = <<>> \/ ReadFile(tf).err # "nil"
          THEN [t |-> <<>>, err |-> "license file"]
          ELSE [t |-> <<TextNode(ReadFile(tf).b)>>, err |-> "nil"])
    ELSE LET t == IF Str(license) \in DOMAIN licenseTemplate
                  THEN licenseTemplate[Str(license)] ELSE <<>>
         IN  IF t = <<>> THEN [t |-> <<>>, err |-> "unknown license"]
             ELSE [t |-> t, err |-> "nil"]

\* the fields of licenseData, by the text of their action
fieldActions == {<<".", "Y", "e", "a", "r">>, <<".", "H", "o", "l", "d", "e", "r">>,
                 <<".", "S", "P", "D", "X", "I", "D">>}

\* the parse of the template text s: the text up to "{{" is a text node, the
\* action up to "}}" a field node. An action that is not closed does not
\* parse; an action that is no field of licenseData is taken as a name that
\* is not defined, which does not parse either.
RECURSIVE parseText(_)
parseText(s) ==
    LET i == Index(s, <<"{", "{">>)
        rest == SubSeq(s, i + 2, Len(s))
        j == Index(rest, <<"}", "}">>)
        action == SubSeq(rest, 1, j - 1)
        text == IF i > 1 THEN <<TextNode(SubSeq(s, 1, i - 1))>> ELSE <<>>
        after == parseText(SubSeq(rest, j + 2, Len(rest)))
    IN  IF i = 0 THEN [t |-> IF s = <<>> THEN <<>> ELSE <<TextNode(s)>>, err |-> "nil"]
        ELSE IF j = 0 THEN [t |-> <<>>, err |-> "unclosed action"]
        ELSE IF action \notin fieldActions THEN [t |-> <<>>, err |-> "not defined"]
        ELSE IF after.err # "nil" THEN after
        ELSE [t |-> text \o <<FieldNode(Str(Tail(action)))>> \o after.t, err |-> "nil"]

\* template.New("").Parse(tpl) on what fetchTemplate returned: the text nodes
\* are parsed, the built-in templates are their own parse
RECURSIVE Parse(_)
Parse(t) ==
    IF t = <<>> THEN [t |-> <<>>, err |-> "nil"]
    ELSE LET first == IF "text" \in DOMAIN Head(t) THEN parseText(Head(t).text)
                      ELSE [t |-> <<Head(t)>>, err |-> "nil"]
             after == Parse(Tail(t))
         IN  IF first.err # "nil" THEN first
             ELSE IF after.err # "nil" THEN after
             ELSE [t |-> first.t \o after.t, err |-> "nil"]

\* What addLicense returns, (modified, err), with the file as it is after the
\* call; wrote tells whether ioutil.WriteFile was called, wdata with which bytes
unchanged(f, e) ==
    [modified |-> FALSE, err |-> e, file |-> f, wrote |-> FALSE, wdata |-> <<>>]

written(f, b, fmode) ==
    LET w == WriteFile(f, b, fmode)
    IN  [modified |-> TRUE, err |-> w.err, file |-> w.file, wrote |-> TRUE, wdata |-> b]

\* the licensed branch updating the year without looking at the update flag
updateLicensed_always(updateOldLicense, fmode, data, f, b) ==
    IF isOutdatedLicense(b, data.Year)
    THEN LET u == updateExistingLicense(b, data.Year)
         IN  IF u.err # "nil" THEN unchanged(f, u.err)
             ELSE written(f, u.b, fmode)
    ELSE unchanged(f, "nil")

\* addLicense, the branch of a file that has a license
updateLicensed(updateOldLicense, fmode, data, f, b) ==
    IF updateOldLicense /\ isOutdatedLicense(b, data.Year)
    THEN LET u == updateExistingLicense(b, data.Year)
         IN  IF u.err # "nil" THEN unchanged(f, u.err)
             ELSE written(f, u.b, fmode)
    ELSE unchanged(f, "nil")

\* the insertion branch without the newline added to a first line that has none
insertLicense_noNewline(lic, fmode, f, b) ==
    LET line == hashBang(b)
        rest == IF Len(line) > 0 THEN SubSeq(b, Len(line) + 1, Len(b)) ELSE b
        lic1 == IF Len(line) > 0 THEN line \o lic ELSE lic
    IN  written(f, lic1 \o rest, fmode)

\* addLicense, the branch of a file without license: the header lic goes
\* before the content b, after the first line when hashBang returns it
insertLicense(lic, fmode, f, b) ==
    LET line == hashBang(b)
        rest == IF Len(line) > 0 THEN SubSeq(b, Len(line) + 1, Len(b)) ELSE b
        line1 == IF Len(line) > 0 /\ line[Len(line)] # "\n"
                 THEN line \o <<"\n">> ELSE line
        lic1 == IF Len(line) > 0 THEN line1 \o lic ELSE lic
    IN  written(f, lic1 \o rest, fmode)

\* addLicense reading the file before it looks at the extension
addLicense_readFirst(p, updateOldLicense, fmode, tmpl, data, f) ==
    LET lic == licenseHeader(p, tmpl, data)
        rd == ReadFile(f)
    IN  IF rd.err # "nil" THEN unchanged(f, rd.err)
        ELSE IF lic.nil THEN unchanged(f, "nil")
        ELSE IF isGenerated(rd.b) THEN unchanged(f, "nil")
        ELSE IF hasLicense(rd.b)
        THEN updateLicensed(updateOldLicense, fmode, data, f, rd.b)
        ELSE insertLicense(lic.lic, fmode, f, rd.b)

\* addLicense on the file f found at p
addLicense(p, updateOldLicense, fmode, tmpl, data, f) ==
    LET lic == licenseHeader(p, tmpl, data)
        rd == ReadFile(f)
    IN  IF lic.nil THEN unchanged(f, "nil")
        ELSE IF rd.err # "nil" THEN unchanged(f, rd.err)
        ELSE IF isGenerated(rd.b) THEN unchanged(f, "nil")
        ELSE IF hasLicense(rd.b)
        THEN updateLicensed(updateOldLicense, fmode, data, f, rd.b)
        ELSE insertLicense(lic.lic, fmode, f, rd.b)

\* fileHasLicense without the generated files counted as licensed
fileHasLicense_noGenerated(f) ==
    LET rd == ReadFile(f)
    IN  IF rd.err # "nil" THEN [has |-> FALSE, err |-> rd.err]
        ELSE [has |-> hasLicense(rd.b), err |-> "nil"]

fileHasLicense(f) ==
    LET rd == ReadFile(f)
    IN  IF rd.err # "nil" THEN [has |-> FALSE, err |-> rd.err]
        ELSE [has |-> hasLicense(rd.b) \/ isGenerated(rd.b), err |-> "nil"]

fileHasOutdatedLicense(f, currentYear) ==
    LET rd == ReadFile(f)
    IN  IF rd.err # "nil" THEN [outdated |-> FALSE, err |-> rd.err]
        ELSE [outdated |-> hasLicense(rd.b) /\ isOutdatedLicense(rd.b, currentYear),
              err |-> "nil"]

\* the check-only branch of the worker closure of main; out is what it
\* prints on standard output
checkTask(p, update, tmpl, data, f) ==
    LET lic == licenseHeader(p, tmpl, data)
        hl == fileHasLicense(f)
        ho == fileHasOutdatedLicense(f, data.Year)
    IN  IF lic.nil THEN [err |-> "nil", out |-> <<>>]
        ELSE IF hl.err # "nil" THEN [err |-> hl.err, out |-> <<>>]
        ELSE IF ~hl.has THEN [err |-> "missing license header", out |-> <<p>>]
        ELSE IF update
        THEN (IF ho.err # "nil" THEN [err |-> ho.err, out |-> <<>>]
              ELSE IF ho.outdated
              THEN [err |-> "outdated license header",
                    out |-> <<p \o <<" ", "-", " ", "u", "p", "d", "a", "t", "e", " ", "l", "i", "c", "e", "n", "s", "e">> >>]
              ELSE [err |-> "nil", out |-> <<>>])
        ELSE [err |-> "nil", out |-> <<>>]

----------------------------------------------------------------------------
(* The worker closure of main *)

\* the closure up to its first ioutil.WriteFile: with wrote, the task goes on
\* to write wdata; without, it returns err
taskStep(res, o) ==
    [err |-> res.err, out |-> o, modified |-> res.modified,
     wrote |-> res.wrote, wdata |-> res.wdata]

\* the closure taking the mutate branch whatever the -check flag says
startTask_ignoreCheck(check, p, update, fmode, tmpl, data, f) ==
    taskStep(addLicense(p, update, fmode, tmpl, data, f), <<>>)

startTask(check, p, update, fmode, tmpl, data, f) ==
    IF check
    THEN LET r == checkTask(p, update, tmpl, data, f)
         IN  taskStep(unchanged(f, r.err), r.out)
    ELSE taskStep(addLicense(p, update, fmode, tmpl, data, f), <<>>)

----------------------------------------------------------------------------
(* Inputs of the single-file specification *)

\* the pieces file contents are built from
pCopyright == <<"C", "o", "P", "y", "R", "i", "G", "h", "T", " ", "2", "0", "1", "0">>
pHashBang == <<"#", "!", "s", "h">>
pXml == <<"<", "?", "X", "M", "L">>
pRest == <<"\n", "x">>
pGenerated == <<"\n", "/", "/", " ", "C", "o", "d", "e", " ", "g", "e", "n", "e", "r", "a", "t", "e", "d", " ", "b", "y", " ", "x", " ", "D", "O", " ", "N", "O", "T", " ", "E", "D", "I", "T", ".", "\n">>
pRange == <<"2", "0", "2", "1", "-", "2", "0", "1", "0">>
pTo2021 == <<"-", "2", "0", "2", "1">>

FilePieces == {pCopyright, pHashBang, pXml, pRest, pGenerated, pRange, pTo2021}

\* the concatenations of at most n pieces of V
ContentsOf(V, n) == {Concat(ps) : ps \in UNION {[1..k -> V] : k \in 0..n}}

FileContents == ContentsOf(FilePieces, MaxPieces)

Paths == {<<"f", ".", "g", "o">>, <<"d", ".", "x", "/", "f", ".", "c">>, <<"f", ".", "u", "n", "k", "n", "o", "w", "n">>}

year2021 == <<"2", "0", "2", "1">>

Years == {year2021, <<"2", "0", "1", "5", "-", "2", "0", "1", "7", ",", "2", "0", "1", "9">>}

Templates == {tmplHYS, tmplBSD}

Perms == {"rw", "r", "w"}

Configs == [tmpl : Templates,
            data : [Year : Years, Holder : {<<"H">>}, SPDXID : {<<"S">>}],
            update : BOOLEAN]

\* addErr is the error of the last call of addLicense, "none" before the first
noOp == [op |-> "none", before |-> <<>>, modified |-> FALSE, err |-> "nil",
         out |-> <<>>, wrote |-> FALSE, wdata |-> <<>>, addErr |-> "none"]

noCall == [name |-> "none", b |-> <<>>, year |-> <<>>, arg |-> <<>>, res |-> <<>>]

\* no file is counted
noPar == [todo |-> 0, ch |-> 0, running |-> 0, done |-> 0]

\* the variables of the pipeline, where no run is modelled
NoRun ==
    /\ par = noPar
    /\ checkonly = FALSE
    /\ fs0 = <<>>
    /\ fs = <<>>
    /\ todo = <<>>
    /\ ch = <<>>
    /\ chClosed = FALSE
    /\ tasks = <<>>
    /\ gErr = "nil"
    /\ writes = 0
    /\ mainPc = "none"
    /\ collPc = "none"
    /\ doneClosed = FALSE
    /\ exit = "none"

----------------------------------------------------------------------------
(* The single-file specification: one file, the mutate path and the check  *)
(* path applied to it with one fixed configuration                         *)

Init ==
    /\ cfg \in Configs
    /\ path \in Paths
    /\ file \in [content : FileContents, perm : Perms]
    /\ adds = 0
    /\ last = noOp
    /\ fn = noCall
    /\ NoRun

\* the mutate branch of the worker: addLicense(f.path, *update, f.mode, t, data)
AddLicense ==
    /\ adds < MaxAdds
    /\ LET r == addLicense(path, cfg.update, file.perm, cfg.tmpl, cfg.data, file)
       IN  /\ file' = r.file
           /\ last' = [op |-> "addLicense", before |-> file.content,
                       modified |-> r.modified, err |-> r.err, out |-> <<>>,
                       wrote |-> r.wrote, wdata |-> r.wdata, addErr |-> r.err]
    /\ adds' = adds + 1
    /\ UNCHANGED <<cfg, path, fn, runVars>>

\* the check-only branch of the worker
Check ==
    /\ LET r == checkTask(path, cfg.update, cfg.tmpl, cfg.data, file)
       IN  last' = [op |-> "check", before |-> file.content, modified |-> FALSE,
                    err |-> r.err, out |-> r.out, wrote |-> FALSE, wdata |-> <<>>,
                    addErr |-> last.addErr]
    /\ UNCHANGED <<cfg, path, file, adds, fn, runVars>>

Next == AddLicense \/ Check

Spec == Init /\ [][Next]_vars

----------------------------------------------------------------------------
(* Properties of the single-file specification *)

readable == canRead(file.perm)
writable == canWrite(file.perm)

\* the keys of the switch in licenseHeader
styleKeys ==
    {".c", ".h", ".gv", ".js", ".mjs", ".cjs", ".jsx", ".tsx", ".css", ".scss", ".sass",
     ".tf", ".ts", ".cc", ".cpp", ".cs", ".go", ".hcl", ".hh", ".hpp", ".java", ".m",
     ".mm", ".proto", ".rs", ".scala", ".swift", ".dart", ".groovy", ".kt", ".kts", ".v",
     ".sv", ".py", ".sh", ".yaml", ".yml", ".dockerfile", "dockerfile", ".rb", "gemfile",
     ".tcl", ".bzl", ".el", ".lisp", ".erl", ".hs", ".sql", ".sdl", ".html", ".xml",
     ".vue", ".wxi", ".wxl", ".wxs", ".php", ".ml", ".mli", ".mll", ".mly"}

recognized == fileExtension(path) \in styleKeys

\* the header rendered for the file of the specification
header == licenseHeader(path, cfg.tmpl, cfg.data).lic

\* the first line of b, with its newline when it has one
FirstLine(b) ==
    IF \E i \in 1..Len(b) : b[i] = "\n"
    THEN SubSeq(b, 1, Min({i \in 1..Len(b) : b[i] = "\n"}))
    ELSE b

\* b begins, whatever the case of its letters, with one of the preserve markers
StartsWithMarker(b) ==
    \E i \in 1..Len(head) :
        /\ Len(b) >= Len(head[i])
        /\ \A j \in 1..Len(head[i]) : ToLowerByte(b[j]) = head[i][j]

\* C1: once addLicense has been applied to a file, applying it again with the
\* same configuration leaves the bytes of the file as the first application
\* left them.
C1_SecondRunIdentical ==
    (last.op = "addLicense" /\ adds >= 2) => file.content = last.before

\* C4: with update mode off, addLicense on a file whose content has a license
\* returns modified = false, does not call WriteFile and leaves the bytes.
C4_LicensedFileLeftAlone ==
    (last.op = "addLicense" /\ ~cfg.update /\ hasLicense(last.before))
        => (~last.modified /\ ~last.wrote /\ file.content = last.before)

C4_Witness ==
    /\ last.op = "addLicense" /\ ~cfg.update /\ hasLicense(last.before)
    /\ recognized /\ file.perm = "rw" /\ ~isGenerated(last.before)
    /\ isOutdatedLicense(last.before, cfg.data.Year)

\* C5: a readable file with a generated-code marker line is never modified by
\* addLicense and never makes the check path fail, with update mode on or off.
C5_GeneratedNeverModifiedNorFailed ==
    (last.op \in {"addLicense", "check"} /\ readable /\ isGenerated(last.before))
        => (last.err = "nil" /\ ~last.modified /\ ~last.wrote
            /\ file.content = last.before)

\* C6: for a path whose extension is not in the style table, addLicense returns
\* (false, nil) without writing and the check path succeeds without output,
\* whatever the content and also when the file cannot be read.
C6_UnknownExtensionNoOp ==
    (last.op \in {"addLicense", "check"} /\ ~recognized)
        => (/\ last.err = "nil" /\ ~last.modified /\ ~last.wrote
            /\ last.out = <<>> /\ file.content = last.before)

C6_Witness ==
    /\ last.op = "addLicense" /\ ~recognized /\ ~readable
    /\ last.err = "nil" /\ adds = 1

\* C7: for a recognized, readable file without license, not generated, whose
\* first line starts with no preserve marker, addLicense writes exactly the
\* rendered header followed by the original content.
C7_HeaderPrepended ==
    (/\ last.op = "addLicense" /\ recognized /\ readable
     /\ ~hasLicense(last.before) /\ ~isGenerated(last.before)
     /\ ~StartsWithMarker(last.before))
        => (/\ last.modified /\ last.wrote
            /\ last.wdata = header \o last.before
            /\ writable => (last.err = "nil" /\ file.content = header \o last.before)
            /\ (path = <<"d", ".", "x", "/", "f", ".", "c">> /\ cfg.tmpl = tmplHYS)
                 => last.wdata = <<"/", "*", "\n", " ", "*", " ">> \o cfg.data.Holder
                        \o cfg.data.Year \o cfg.data.SPDXID
                        \o <<"\n", " ", "*", "/", "\n", "\n">> \o last.before)

C7_Witness ==
    /\ last.op = "addLicense" /\ recognized /\ file.perm = "rw"
    /\ ~hasLicense(last.before) /\ ~isGenerated(last.before)
    /\ ~StartsWithMarker(last.before) /\ last.before # <<>>
    /\ file.content # last.before

\* C8: for a recognized, readable file without license, not generated, whose
\* first line starts with a preserve marker, addLicense writes the first line
\* (with a newline added when it had none), then the header, then the rest.
C8_FirstLinePreserved ==
    (/\ last.op = "addLicense" /\ recognized /\ readable
     /\ ~hasLicense(last.before) /\ ~isGenerated(last.before)
     /\ StartsWithMarker(last.before))
        => LET line == FirstLine(last.before)
               rest == SubSeq(last.before, Len(line) + 1, Len(last.before))
               line1 == IF line[Len(line)] = "\n" THEN line ELSE line \o <<"\n">>
           IN  /\ last.modified /\ last.wrote
               /\ last.wdata = line1 \o header \o rest
               /\ SubSeq(last.wdata, 1, Len(line)) = line
               /\ writable => (last.err = "nil" /\ file.content = last.wdata)

C8_Witness ==
    /\ last.op = "addLicense" /\ recognized /\ file.perm = "rw"
    /\ ~hasLicense(last.before) /\ ~isGenerated(last.before)
    /\ StartsWithMarker(last.before)
    /\ FirstLine(last.before)[Len(FirstLine(last.before))] # "\n"
    /\ file.content # last.before

updateLicenseSuffix == <<" ", "-", " ", "u", "p", "d", "a", "t", "e", " ", "l", "i", "c", "e", "n", "s", "e">>

\* C18: the check path prints the path of the file, on one line, and fails
\* with "missing license header" exactly when the path has a comment style,
\* the file can be read and its content has no license and is not generated;
\* in every other case it prints no line that is the path.
C18_MissingFinding ==
    last.op = "check"
        => LET missing == /\ recognized /\ readable
                          /\ ~hasLicense(last.before) /\ ~isGenerated(last.before)
           IN  /\ last.err = "missing license header" <=> missing
               /\ missing => last.out = <<path>>
               /\ ~missing => last.out \in {<<>>, <<path \o updateLicenseSuffix>>}

\* a read-only file with content and without license has been reported
C18_Witness ==
    /\ last.op = "check" /\ last.err = "missing license header"
    /\ file.perm = "r" /\ last.before # <<>>
    /\ StartsWithMarker(last.before)

\* C25: after addLicense has run on the file without error, the check path
\* on the same file with the same configuration succeeds: it reports neither
\* a missing nor an outdated license.
C25_MutateThenCheckAgrees ==
    (last.op = "check" /\ last.addErr = "nil") => last.err = "nil"

\* C26: when addLicense returns (true, nil), the bytes of the file after the
\* call differ from the bytes before it; a licensed file whose year token
\* begins with the configured year and ends with another is not rewritten in
\* update mode.
C26_ModifiedMeansChanged ==
    (last.op = "addLicense" /\ last.modified /\ last.err = "nil")
        => file.content # last.before

----------------------------------------------------------------------------
(* The specification of the detector functions: hasLicense and             *)
(* updateExistingLicense applied to contents around the 1000-byte limit    *)

\* n bytes without keyword, digit or newline
Pad(n) == [i \in 1..n |-> "x"]

\* the lengths of the padding that precedes the pieces
PadLens == {0, 983, 991, 992}

FnPieces == {<<"C", "o", "P", "y", "R", "i", "G", "h", "T">>,
             <<"M", "o", "z", "i", "l", "l", "a", " ", "P", "u", "b", "l", "i", "c">>,
             <<"S", "P", "D", "X", "-", "L", "i", "c", "e", "n", "s", "e", "-", "I", "d", "e", "n", "t", "i", "f", "i", "e", "r">>,
             <<"S", "P", "D", "X", ":", " ", "M", "I", "T">>,
             <<"2", "0", "1", "0">>, <<"-", "2", "0", "1", "5">>, <<"2", "0", "2", "1">>,
             <<"2", "0", "1", "5", "-", "2", "0", "1", "7", ",", "2", "0", "1", "9">>}

FnContents == {Pad(n) \o c : n \in PadLens, c \in ContentsOf(FnPieces, MaxPieces)}

someConfig == [tmpl |-> tmplHYS,
               data |-> [Year |-> <<>>, Holder |-> <<>>, SPDXID |-> <<>>],
               update |-> FALSE]

InitFn ==
    /\ fn \in {[name |-> "none", b |-> c, year |-> y, arg |-> <<>>, res |-> <<>>] :
                  c \in FnContents, y \in Years}
    /\ cfg = someConfig
    /\ path = <<>>
    /\ file = [content |-> <<>>, perm |-> "rw"]
    /\ adds = 0
    /\ last = noOp
    /\ NoRun

\* each behaviour applies one function, once, to the input Init has drawn
CallHasLicense ==
    /\ fn.name = "none"
    /\ fn' = [fn EXCEPT !.name = "hasLicense", !.res = hasLicense(fn.b)]
    /\ UNCHANGED <<fileVars, runVars>>

CallUpdateExistingLicense ==
    /\ fn.name = "none"
    /\ fn' = [fn EXCEPT !.name = "updateExistingLicense",
                        !.res = updateExistingLicense(fn.b, fn.year)]
    /\ UNCHANGED <<fileVars, runVars>>

\* the path of the file the check branch is applied to
checkPath == <<"f", ".", "g", "o">>

\* the check-only branch of the worker on a readable file of content fn.b at
\* checkPath, with -y fn.year and with or without -u
CallCheck ==
    /\ fn.name = "none"
    /\ \E u \in BOOLEAN :
          LET r == checkTask(checkPath, u, tmplBSD,
                             [Year |-> fn.year, Holder |-> <<"H">>, SPDXID |-> <<"S">>],
                             [content |-> fn.b, perm |-> "r"])
          IN  fn' = [fn EXCEPT !.name = "check",
                               !.res = [update |-> u, err |-> r.err, out |-> r.out]]
    /\ UNCHANGED <<fileVars, runVars>>

NextFn == CallHasLicense \/ CallUpdateExistingLicense \/ CallCheck

SpecFn == InitFn /\ [][NextFn]_vars

\* one of the three keywords lies, whatever the case of its letters, within
\* the first 1000 bytes of b
KeywordInHead(b) ==
    \E k \in {kwCopyright, kwMozilla, kwSpdx} :
        \E i \in 1..Len(b) :
            /\ i + Len(k) - 1 <= 1000
            /\ i + Len(k) - 1 <= Len(b)
            /\ \A j \in 1..Len(k) : ToLowerByte(b[i + j - 1]) = k[j]

\* C9: hasLicense(b) is true exactly when one of "copyright", "mozilla public"
\* and "spdx-license-identifier" lies, case-insensitively, entirely within the
\* first 1000 bytes of b; "SPDX: MIT" has no license.
C9_HasLicenseIffKeywordInHead ==
    fn.name = "hasLicense"
        => /\ fn.res <=> KeywordInHead(fn.b)
           /\ fn.b = <<"S", "P", "D", "X", ":", " ", "M", "I", "T">> => ~fn.res

\* a keyword that straddles byte 1000 does not count
C9_Witness ==
    /\ fn.name = "hasLicense" /\ ~fn.res
    /\ Len(fn.b) > 1000
    /\ \E i \in 1..1000 : MatchAt(ToLower(fn.b), i, kwCopyright)

\* the offset of the first match of (YYYY-)?YYYY in the first 1000 bytes of b
\* and its length; 0 when there is none
FirstYearToken(b) ==
    LET n == IF Len(b) < 1000 THEN Len(b) ELSE 1000
        at == {p \in 1..(n - 3) : \A j \in 0..3 : b[p + j] \in digits}
    IN  IF at = {} THEN [at |-> 0, len |-> 0]
        ELSE LET p == Min(at)
             IN  IF p + 8 <= n /\ b[p + 4] = "-" /\ (\A j \in 5..8 : b[p + j] \in digits)
                 THEN [at |-> p, len |-> 9]
                 ELSE [at |-> p, len |-> 4]

\* C10: when a year token is found in the first 1000 bytes and neither its
\* creation year nor its last-modification year is currentYear,
\* updateExistingLicense returns b with the first token replaced by
\* "<creationYear>-<currentYear>" and every other byte kept; when one of the
\* two years is currentYear it returns b unchanged, without error.
C10_SingleSpliceAtFirstToken ==
    (fn.name = "updateExistingLicense" /\ FirstYearToken(fn.b).at > 0)
        => LET t == FirstYearToken(fn.b)
               creation == SubSeq(fn.b, t.at, t.at + 3)
               lastModification == SubSeq(fn.b, t.at + t.len - 4, t.at + t.len - 1)
           IN  /\ fn.res.err = "nil"
               /\ IF creation = fn.year \/ lastModification = fn.year
                  THEN fn.res.b = fn.b
                  ELSE fn.res.b = SubSeq(fn.b, 1, t.at - 1)
                                    \o creation \o <<"-">> \o fn.year
                                    \o SubSeq(fn.b, t.at + t.len, Len(fn.b))
               /\ (fn.b = <<"2", "0", "1", "5", "-", "2", "0", "1", "7", ",", "2", "0", "1", "9">> /\ fn.year = <<"2", "0", "2", "1">>)
                    => fn.res.b = <<"2", "0", "1", "5", "-", "2", "0", "2", "1", ",", "2", "0", "1", "9">>

\* a range token near the limit is spliced
C10_Witness ==
    /\ fn.name = "updateExistingLicense"
    /\ FirstYearToken(fn.b).len = 9
    /\ FirstYearToken(fn.b).at > 900
    /\ fn.res.err = "nil" /\ fn.res.b # fn.b

C27_UpdateResolvesStaleness ==
    (/\ fn.name = "updateExistingLicense" /\ fn.year = year2021
     /\ hasLicense(fn.b) /\ isOutdatedLicense(fn.b, fn.year)
     /\ fn.res.err = "nil" /\ fn.res.b # fn.b)
        => ~isOutdatedLicense(fn.res.b, fn.year)

----------------------------------------------------------------------------
(* The specification of the template store, the header renderer and the    *)
(* comment-style resolver: fetchTemplate, executeTemplate and licenseHeader *)
(* applied to the inputs below                                              *)

\* the nodes the templates of this specification are built from
RenderNodes == {TextNode(<<"a", " ", "\t">>), TextNode(<<"\n">>), TextNode(<<"\r", "\n">>),
                TextNode(<<" ", "b">>), FieldNode("Holder"), FieldNode("SPDXID")}

RenderTemplates == UNION {[1..k -> RenderNodes] : k \in 0..MaxPieces}

RenderData == {[Year |-> year2021, Holder |-> <<"H">>, SPDXID |-> <<"S">>],
               [Year |-> year2021, Holder |-> <<"A", "&", "B">>, SPDXID |-> <<"G", "P", "L", "-", "2", ".", "0", "+">>],
               [Year |-> year2021, Holder |-> <<"<", "x", ">", "'", "\"">>, SPDXID |-> <<"S">>]}

\* four of the (top, mid, bot) rows of licenseHeader
RenderStyles == {[top |-> <<"/", "*">>, mid |-> <<" ", "*", " ">>, bot |-> <<" ", "*", "/">>],
                 [top |-> <<>>, mid |-> <<"/", "/", " ">>, bot |-> <<>>],
                 [top |-> <<"<", "!", "-", "-">>, mid |-> <<" ">>, bot |-> <<"-", "-", ">">>],
                 [top |-> <<"(", "*", "*">>, mid |-> <<" ", " ", " ">>, bot |-> <<"*", ")">>]}

LicenseNames == {<<"m", "i", "t">>, <<"M", "I", "T">>, <<"M", "i", "t">>, <<"b", "s", "d">>, <<"B", "S", "D">>, <<"a", "p", "a", "c", "h", "e">>, <<"A", "p", "a", "c", "h", "e">>, <<"m", "p", "l">>, <<"M", "P", "L">>, <<"u", "n", "k", "n", "o", "w", "n">>, <<>>}

\* the template files, by their paths: one that exists, one that exists and
\* does not parse, and one that does not exist
tplPath == <<"t", ".", "t", "p", "l">>
badPath == <<"b", "a", "d", ".", "t", "p", "l">>
nonePath == <<"n", "o", "n", "e", ".", "t", "p", "l">>
TemplateFiles == {<<>>, tplPath, badPath, nonePath}
templateFileAt(pth) ==
    IF pth = tplPath THEN [content |-> <<"C", "u", "s", "t", "o", "m", "\n">>, perm |-> "r"]
    ELSE IF pth = badPath THEN [content |-> <<"{", "{", ".", "H", "o", "l", "d", "e", "r">>, perm |-> "r"]
    ELSE <<>>

StylePaths == {<<"f", ".", "p", "y">>, <<"F", ".", "P", "Y">>, <<"d", "o", "c", "k", "e", "r", "f", "i", "l", "e">>, <<"D", "o", "C", "k", "E", "r", "F", "i", "L", "e">>, <<"D", ".", "X", "/", "G", "e", "m", "f", "i", "l", "e">>, <<"a", ".", "B", "/", "f", ".", "G", "o">>, <<"x", ".", "H", "T", "M", "L">>, <<"F", ".", "U", "n", "k", "n", "o", "w", "n">>, <<"M", "a", "k", "e", "f", "i", "l", "e">>, <<"f", ".">>}

\* the paths TestLicenseHeader gives licenseHeader, for the styles of C, of
\* JavaScript, of "// " and of "# ", and a path of no style
TestLicenseHeaderPaths ==
    {<<"f", ".", "u", "n", "k", "n", "o", "w", "n">>,
     <<"f", ".", "c">>,
     <<"f", ".", "h">>,
     <<"f", ".", "g", "v">>,
     <<"f", ".", "j", "a", "v", "a">>,
     <<"f", ".", "s", "c", "a", "l", "a">>,
     <<"f", ".", "k", "t">>,
     <<"f", ".", "k", "t", "s">>,
     <<"f", ".", "j", "s">>,
     <<"f", ".", "m", "j", "s">>,
     <<"f", ".", "c", "j", "s">>,
     <<"f", ".", "j", "s", "x">>,
     <<"f", ".", "t", "s", "x">>,
     <<"f", ".", "c", "s", "s">>,
     <<"f", ".", "s", "c", "s", "s">>,
     <<"f", ".", "s", "a", "s", "s">>,
     <<"f", ".", "t", "s">>,
     <<"f", ".", "c", "c">>,
     <<"f", ".", "c", "p", "p">>,
     <<"f", ".", "c", "s">>,
     <<"f", ".", "g", "o">>,
     <<"f", ".", "h", "c", "l">>,
     <<"f", ".", "h", "h">>,
     <<"f", ".", "h", "p", "p">>,
     <<"f", ".", "m">>,
     <<"f", ".", "m", "m">>,
     <<"f", ".", "p", "r", "o", "t", "o">>,
     <<"f", ".", "r", "s">>,
     <<"f", ".", "s", "w", "i", "f", "t">>,
     <<"f", ".", "d", "a", "r", "t">>,
     <<"f", ".", "g", "r", "o", "o", "v", "y">>,
     <<"f", ".", "v">>,
     <<"f", ".", "s", "v">>,
     <<"f", ".", "p", "h", "p">>,
     <<"f", ".", "p", "y">>,
     <<"f", ".", "s", "h">>,
     <<"f", ".", "y", "a", "m", "l">>,
     <<"f", ".", "y", "m", "l">>,
     <<"f", ".", "d", "o", "c", "k", "e", "r", "f", "i", "l", "e">>,
     <<"d", "o", "c", "k", "e", "r", "f", "i", "l", "e">>,
     <<"f", ".", "r", "b">>,
     <<"g", "e", "m", "f", "i", "l", "e">>,
     <<"f", ".", "t", "c", "l">>,
     <<"f", ".", "t", "f">>,
     <<"f", ".", "b", "z", "l">>,
     <<"f", ".", "p", "l">>,
     <<"f", ".", "p", "p">>,
     <<"b", "u", "i", "l", "d">>,
     <<"c", "m", "a", "k", "e", "l", "i", "s", "t", "s", ".", "t", "x", "t">>,
     <<"f", ".", "c", "m", "a", "k", "e">>,
     <<"f", ".", "c", "m", "a", "k", "e", ".", "i", "n">>}

\* the arguments of one call of executeTemplate, fetchTemplate or licenseHeader
ExecuteTemplateArgs ==
    {[call |-> "executeTemplate", t |-> t, d |-> d, top |-> st.top, mid |-> st.mid,
      bot |-> st.bot] : t \in RenderTemplates, d \in RenderData, st \in RenderStyles}

FetchTemplateArgs ==
    {[call |-> "fetchTemplate", license |-> license, templateFile |-> templateFile] :
        license \in LicenseNames, templateFile \in TemplateFiles}

LicenseHeaderArgs ==
    {[call |-> "licenseHeader", path |-> p, tmpl |-> tmplHYS, d |-> d] :
        p \in StylePaths \cup TestLicenseHeaderPaths, d \in RenderData}

InitTmpl ==
    /\ fn \in {[name |-> "none", b |-> <<>>, year |-> <<>>, arg |-> a, res |-> <<>>] :
                  a \in ExecuteTemplateArgs \cup FetchTemplateArgs \cup LicenseHeaderArgs}
    /\ cfg = someConfig
    /\ path = <<>>
    /\ file = [content |-> <<>>, perm |-> "rw"]
    /\ adds = 0
    /\ last = noOp
    /\ NoRun

CallExecuteTemplate ==
    /\ fn.name = "none"
    /\ fn.arg.call = "executeTemplate"
    /\ fn' = [fn EXCEPT !.name = "executeTemplate",
                        !.res = executeTemplate(fn.arg.t, fn.arg.d, fn.arg.top, fn.arg.mid,
                                                fn.arg.bot)]
    /\ UNCHANGED <<fileVars, runVars>>

CallFetchTemplate ==
    /\ fn.name = "none"
    /\ fn.arg.call = "fetchTemplate"
    /\ fn' = [fn EXCEPT !.name = "fetchTemplate",
                        !.res = fetchTemplate(fn.arg.license, fn.arg.templateFile,
                                              templateFileAt(fn.arg.templateFile))]
    /\ UNCHANGED <<fileVars, runVars>>

CallLicenseHeader ==
    /\ fn.name = "none"
    /\ fn.arg.call = "licenseHeader"
    /\ fn' = [fn EXCEPT !.name = "licenseHeader",
                        !.res = licenseHeader(fn.arg.path, fn.arg.tmpl, fn.arg.d)]
    /\ UNCHANGED <<fileVars, runVars>>

NextTmpl == CallExecuteTemplate \/ CallFetchTemplate \/ CallLicenseHeader

SpecTmpl == InitTmpl /\ [][NextTmpl]_vars

\* the offsets of the newlines of s
NewlinesOf(s) == {i \in 1..Len(s) : s[i] = "\n"}

\* the number of lines of s: each newline ends one, and so does the end of s
\* after bytes that no newline follows
NumLines(s) ==
    Cardinality(NewlinesOf(s)) + (IF s # <<>> /\ s[Len(s)] # "\n" THEN 1 ELSE 0)

\* the offset of the k-th newline of s
NthNewline(s, k) ==
    CHOOSE i \in NewlinesOf(s) : Cardinality({j \in NewlinesOf(s) : j <= i}) = k

\* the k-th line of s, without its newline
LineOf(s, k) ==
    LET from == IF k = 1 THEN 1 ELSE NthNewline(s, k - 1) + 1
        to == IF k <= Cardinality(NewlinesOf(s)) THEN NthNewline(s, k) - 1 ELSE Len(s)
    IN  SubSeq(s, from, to)

\* s without the white space at its end
StripTrailing(s) ==
    LET keep == {i \in 1..Len(s) : s[i] \notin unicodeSpace}
    IN  IF keep = {} THEN <<>>
        ELSE SubSeq(s, 1, CHOOSE m \in keep : \A k \in keep : m >= k)

\* C11: the output of executeTemplate is top and a newline when top is not
\* empty, then for each line of the rendered body, in order, mid followed by
\* the line, without the white space at its end, and a newline, then bot and
\* a newline when bot is not empty, then one empty line; there are as many
\* mid-prefixed lines as the body has lines.
C11_RenderedFormat ==
    fn.name = "executeTemplate"
        => LET a == fn.arg
               out == fn.res
               body == Execute(a.t, a.d)
               n == NumLines(body)
               nTop == IF a.top # <<>> THEN 1 ELSE 0
               nBot == IF a.bot # <<>> THEN 1 ELSE 0
           IN  /\ out[Len(out)] = "\n"
               /\ NumLines(out) = nTop + n + nBot + 1
               /\ nTop = 1 => LineOf(out, 1) = a.top
               /\ \A k \in 1..n :
                     LineOf(out, nTop + k) = StripTrailing(a.mid \o LineOf(body, k))
               /\ nBot = 1 => LineOf(out, nTop + n + 1) = a.bot
               /\ LineOf(out, nTop + n + nBot + 1) = <<>>

\* a body of two lines, the first empty, the second with white space at its
\* end, rendered in a style without top and bottom
C11_Witness ==
    /\ fn.name = "executeTemplate"
    /\ fn.arg.t = <<TextNode(<<"\n">>), TextNode(<<"a", " ", "\t">>)>>
    /\ fn.arg.top = <<>>
    /\ fn.res = <<"/", "/", "\n", "/", "/", " ", "a", "\n", "\n">>

\* the fields the template t prints
FieldsOf(t) == {t[i].field : i \in {j \in 1..Len(t) : "field" \in DOMAIN t[j]}}

\* C12: the header contains the value of every field the template prints
\* byte for byte, also when the value has '&', '<', '>', '+' or quotes in it.
C12_FieldsVerbatim ==
    fn.name = "executeTemplate"
        => \A f \in FieldsOf(fn.arg.t) : Contains(fn.res, fieldOf([field |-> f], fn.arg.d))

\* the names of the built-in templates
builtinNames == {"apache", "mit", "bsd", "mpl"}

\* C13: fetchTemplate with an empty template-file path resolves a license name
\* to the built-in template whose name it is in lower case, and fails with
\* "unknown license" exactly for the names that are no built-in name in any
\* case.
C13_LookupIgnoresCase ==
    (fn.name = "fetchTemplate" /\ fn.arg.templateFile = <<>>)
        => LET low == Str(ToLower(fn.arg.license))
           IN  IF low \in builtinNames
               THEN /\ fn.res.err = "nil"
                    /\ fn.res.t = (CASE low = "apache" -> tmplApache
                                     [] low = "mit" -> tmplMIT
                                     [] low = "bsd" -> tmplBSD
                                     [] low = "mpl" -> tmplMPL)
               ELSE fn.res.err = "unknown license"

\* C14: licenseHeader gives a path the header it gives the path in lower
\* case; F.PY and DoCkErFiLe get the header of the "# " style.
C14_StyleIgnoresCase ==
    fn.name = "licenseHeader"
        => /\ fn.res = licenseHeader(ToLower(fn.arg.path), fn.arg.tmpl, fn.arg.d)
           /\ (fn.arg.path \in {<<"F", ".", "P", "Y">>, <<"D", "o", "C", "k", "E", "r", "F", "i", "L", "e">>} /\ fn.arg.d.Holder = <<"H">>)
                 => (~fn.res.nil /\ fn.res.lic = <<"#", " ", "H", "2", "0", "2", "1", "S", "\n", "\n">>)

\* a basename without extension, in mixed case, is resolved
C14_Witness ==
    /\ fn.name = "licenseHeader"
    /\ fn.arg.path = <<"D", ".", "X", "/", "G", "e", "m", "f", "i", "l", "e">>
    /\ ~fn.res.nil
    /\ SubSeq(fn.res.lic, 1, 2) = <<"#", " ">>
\* the header TestLicenseHeader wants for the path p, with the holder H, the
\* year 2021 and the SPDX id S: <<>> stands for no header
wantHeader(p) ==
    LET HYS == <<"H", "2", "0", "2", "1", "S">>
    IN  CASE p \in {<<"f", ".", "u", "n", "k", "n", "o", "w", "n">>}
               -> <<>>
          [] p \in {<<"f", ".", "c">>, <<"f", ".", "h">>, <<"f", ".", "g", "v">>, <<"f", ".", "j", "a", "v", "a">>, <<"f", ".", "s", "c", "a", "l", "a">>, <<"f", ".", "k", "t">>, <<"f", ".", "k", "t", "s">>}
               -> <<"/", "*", "\n", " ", "*", " ">> \o HYS \o <<"\n", " ", "*", "/", "\n", "\n">>
          [] p \in {<<"f", ".", "j", "s">>, <<"f", ".", "m", "j", "s">>, <<"f", ".", "c", "j", "s">>, <<"f", ".", "j", "s", "x">>, <<"f", ".", "t", "s", "x">>, <<"f", ".", "c", "s", "s">>, <<"f", ".", "s", "c", "s", "s">>, <<"f", ".", "s", "a", "s", "s">>, <<"f", ".", "t", "s">>}
               -> <<"/", "*", "*", "\n", " ", "*", " ">> \o HYS \o <<"\n", " ", "*", "/", "\n", "\n">>
          [] p \in {<<"f", ".", "c", "c">>, <<"f", ".", "c", "p", "p">>, <<"f", ".", "c", "s">>, <<"f", ".", "g", "o">>, <<"f", ".", "h", "c", "l">>, <<"f", ".", "h", "h">>, <<"f", ".", "h", "p", "p">>, <<"f", ".", "m">>, <<"f", ".", "m", "m">>, <<"f", ".", "p", "r", "o", "t", "o">>, <<"f", ".", "r", "s">>, <<"f", ".", "s", "w", "i", "f", "t">>, <<"f", ".", "d", "a", "r", "t">>, <<"f", ".", "g", "r", "o", "o", "v", "y">>, <<"f", ".", "v">>, <<"f", ".", "s", "v">>, <<"f", ".", "p", "h", "p">>}
               -> <<"/", "/", " ">> \o HYS \o <<"\n", "\n">>
          [] p \in {<<"f", ".", "p", "y">>, <<"f", ".", "s", "h">>, <<"f", ".", "y", "a", "m", "l">>, <<"f", ".", "y", "m", "l">>, <<"f", ".", "d", "o", "c", "k", "e", "r", "f", "i", "l", "e">>, <<"d", "o", "c", "k", "e", "r", "f", "i", "l", "e">>, <<"f", ".", "r", "b">>, <<"g", "e", "m", "f", "i", "l", "e">>, <<"f", ".", "t", "c", "l">>, <<"f", ".", "t", "f">>, <<"f", ".", "b", "z", "l">>, <<"f", ".", "p", "l">>, <<"f", ".", "p", "p">>, <<"b", "u", "i", "l", "d">>, <<"c", "m", "a", "k", "e", "l", "i", "s", "t", "s", ".", "t", "x", "t">>, <<"f", ".", "c", "m", "a", "k", "e">>, <<"f", ".", "c", "m", "a", "k", "e", ".", "i", "n">>}
               -> <<"#", " ">> \o HYS \o <<"\n", "\n">>

\* C22: licenseHeader gives each path of TestLicenseHeader the header the test
\* wants for it: the C block style for .c, .h, .gv, .java, .scala, .kt and
\* .kts, the JavaScript style for .js to .ts, "// " for .cc to .php, "# " for
\* .py to .bzl, .tf, .pl, .pp, build, cmakelists.txt, .cmake and .cmake.in,
\* and no header for .unknown.
C22_StyleAsTested ==
    (/\ fn.name = "licenseHeader"
     /\ fn.arg.path \in TestLicenseHeaderPaths
     /\ fn.arg.d.Holder = <<"H">>)
        => (IF fn.res.nil THEN <<>> ELSE fn.res.lic) = wantHeader(fn.arg.path)

----------------------------------------------------------------------------
(* The pipeline of main: the main goroutine walks and sends the files on   *)
(* ch, the collector goroutine starts one task per file in an errgroup,    *)
(* waits for them, closes done and exits with 1 on an error; main returns  *)
(* once done is closed.                                                    *)

chanCap == 1000

RunPaths == {<<"a", ".", "g", "o">>, <<"b", ".", "g", "o">>}

\* a file without license, an executable one, one with a license of 2010, one
\* that cannot be written and one that cannot be read
RunFiles == {[content |-> <<>>, perm |-> "rw"],
             [content |-> pHashBang, perm |-> "rwx"],
             [content |-> pCopyright, perm |-> "rw"],
             [content |-> <<>>, perm |-> "r"],
             [content |-> <<>>, perm |-> "w"]}

\* the values of -l and of -f of the runs
RunLicenses == {<<"b", "s", "d">>, <<"u", "n", "k", "n", "o", "w", "n">>}
RunTemplateFiles == {<<>>, badPath, nonePath}

\* the flags are parsed; tmpl is the template once main has parsed it
InitRun ==
    /\ cfg \in {[tmpl |-> <<>>,
                 data |-> [Year |-> year2021, Holder |-> <<"H">>, SPDXID |-> l],
                 update |-> u, license |-> l, licensef |-> f] :
                   u \in BOOLEAN, l \in RunLicenses, f \in RunTemplateFiles}
    /\ par = noPar
    /\ checkonly \in BOOLEAN
    /\ fs \in [RunPaths -> RunFiles]
    /\ fs0 = fs
    /\ todo \in UNION {[1..k -> RunPaths] : k \in 0..MaxFiles}
    /\ ch = <<>>
    /\ chClosed = FALSE
    /\ tasks = <<>>
    /\ gErr = "nil"
    /\ writes = 0
    /\ mainPc = "start"
    /\ collPc = "none"
    /\ doneClosed = FALSE
    /\ exit = "none"
    /\ path = <<>>
    /\ file = [content |-> <<>>, perm |-> "rw"]
    /\ adds = 0
    /\ last = noOp
    /\ fn = noCall

\* main going on to the pipeline with the template it has, whatever
\* fetchTemplate and Parse returned
ResolveTemplate_noFatal ==
    /\ exit = "none" /\ mainPc = "start"
    /\ LET f == fetchTemplate(cfg.license, cfg.licensef, templateFileAt(cfg.licensef))
       IN  cfg' = [cfg EXCEPT !.tmpl = Parse(f.t).t]
    /\ mainPc' = "walk"
    /\ collPc' = "range"
    /\ UNCHANGED <<path, file, adds, last, fn, par, checkonly, fs0, fs, todo, ch, chClosed, tasks,
                   gErr, writes, doneClosed, exit>>

\* main: fetchTemplate and Parse, each with log.Fatal(err) on an error, which
\* ends the process with status 1; then the channels are made and the
\* collector goroutine is started
ResolveTemplate ==
    /\ exit = "none" /\ mainPc = "start"
    /\ LET f == fetchTemplate(cfg.license, cfg.licensef, templateFileAt(cfg.licensef))
           t == Parse(f.t)
       IN  IF f.err # "nil" \/ t.err # "nil"
           THEN /\ mainPc' = "fatal"
                /\ exit' = "1"
                /\ UNCHANGED <<cfg, collPc>>
           ELSE /\ cfg' = [cfg EXCEPT !.tmpl = t.t]
                /\ mainPc' = "walk"
                /\ collPc' = "range"
                /\ exit' = exit
    /\ UNCHANGED <<path, file, adds, last, fn, par, checkonly, fs0, fs, todo, ch, chClosed, tasks,
                   gErr, writes, doneClosed>>

\* walk: ch <- &file{path, fi.Mode()}
Walk ==
    /\ exit = "none" /\ mainPc = "walk"
    /\ todo # <<>>
    /\ Len(ch) < chanCap
    /\ ch' = Append(ch, [path |-> Head(todo), mode |-> fs[Head(todo)].perm])
    /\ todo' = Tail(todo)
    /\ UNCHANGED <<fileVars, fn, par, checkonly, fs0, fs, chClosed, tasks, gErr, writes, mainPc,
                   collPc, doneClosed, exit>>

\* main: close(ch) after the last walk
CloseCh ==
    /\ exit = "none" /\ mainPc = "walk"
    /\ todo = <<>>
    /\ chClosed' = TRUE
    /\ mainPc' = "recv"
    /\ UNCHANGED <<fileVars, fn, par, checkonly, fs0, fs, todo, ch, tasks, gErr, writes, collPc,
                   doneClosed, exit>>

\* main: <-done, then main returns and the process ends with status 0
MainReturn ==
    /\ exit = "none" /\ mainPc = "recv"
    /\ doneClosed
    /\ mainPc' = "returned"
    /\ exit' = "0"
    /\ UNCHANGED <<fileVars, fn, par, checkonly, fs0, fs, todo, ch, chClosed, tasks, gErr, writes,
                   collPc, doneClosed>>

\* collector: for f := range ch { wg.Go(...) }
Receive ==
    /\ exit = "none" /\ collPc = "range"
    /\ ch # <<>>
    /\ tasks' = Append(tasks, [f |-> Head(ch), pc |-> "start", err |-> "nil",
                               out |-> <<>>, wdata |-> <<>>])
    /\ ch' = Tail(ch)
    /\ UNCHANGED <<fileVars, fn, par, checkonly, fs0, fs, todo, chClosed, gErr, writes, mainPc,
                   collPc, doneClosed, exit>>

\* collector: the range loop ends on the closed, drained channel
RangeEnd ==
    /\ exit = "none" /\ collPc = "range"
    /\ ch = <<>> /\ chClosed
    /\ collPc' = "wait"
    /\ UNCHANGED <<fileVars, fn, par, checkonly, fs0, fs, todo, ch, chClosed, tasks, gErr, writes,
                   mainPc, doneClosed, exit>>

\* wg.Wait() returning while tasks are still running
Wait_early ==
    /\ exit = "none" /\ collPc = "wait"
    /\ collPc' = "closeDone"
    /\ UNCHANGED <<fileVars, fn, par, checkonly, fs0, fs, todo, ch, chClosed, tasks, gErr, writes,
                   mainPc, doneClosed, exit>>

\* collector: err := wg.Wait() returns when every task has returned
Wait ==
    /\ exit = "none" /\ collPc = "wait"
    /\ \A i \in 1..Len(tasks) : tasks[i].pc = "done"
    /\ collPc' = "closeDone"
    /\ UNCHANGED <<fileVars, fn, par, checkonly, fs0, fs, todo, ch, chClosed, tasks, gErr, writes,
                   mainPc, doneClosed, exit>>

\* collector: close(done)
CloseDone ==
    /\ exit = "none" /\ collPc = "closeDone"
    /\ doneClosed' = TRUE
    /\ collPc' = "checkErr"
    /\ UNCHANGED <<fileVars, fn, par, checkonly, fs0, fs, todo, ch, chClosed, tasks, gErr, writes,
                   mainPc, exit>>

\* collector: if err != nil { os.Exit(1) }
ExitOnErr ==
    /\ exit = "none" /\ collPc = "checkErr"
    /\ collPc' = "end"
    /\ exit' = IF gErr # "nil" THEN "1" ELSE exit
    /\ UNCHANGED <<fileVars, fn, par, checkonly, fs0, fs, todo, ch, chClosed, tasks, gErr, writes,
                   mainPc, doneClosed>>

\* a task returns err: the errgroup keeps the first error
Return(i, e, o) ==
    /\ tasks' = [tasks EXCEPT ![i].pc = "done", ![i].err = e, ![i].out = o]
    /\ gErr' = IF gErr = "nil" THEN e ELSE gErr

\* a task that returns at once when another task has failed
StartTask_cancelled(i) ==
    /\ exit = "none" /\ tasks[i].pc = "start"
    /\ LET f == tasks[i].f
           r == startTask(checkonly, f.path, cfg.update, f.mode, cfg.tmpl, cfg.data,
                          fs[f.path])
       IN  IF gErr # "nil" THEN Return(i, "nil", <<>>)
           ELSE IF r.wrote
           THEN /\ tasks' = [tasks EXCEPT ![i].pc = "write", ![i].wdata = r.wdata]
                /\ gErr' = gErr
           ELSE Return(i, r.err, r.out)
    /\ UNCHANGED <<fileVars, fn, par, checkonly, fs0, fs, todo, ch, chClosed, writes, mainPc, collPc,
                   doneClosed, exit>>

\* task i runs up to its return or up to its call of ioutil.WriteFile
StartTask(i) ==
    /\ exit = "none" /\ tasks[i].pc = "start"
    /\ LET f == tasks[i].f
           r == startTask(checkonly, f.path, cfg.update, f.mode, cfg.tmpl, cfg.data,
                          fs[f.path])
       IN  IF r.wrote
           THEN /\ tasks' = [tasks EXCEPT ![i].pc = "write", ![i].wdata = r.wdata]
                /\ gErr' = gErr
           ELSE Return(i, r.err, r.out)
    /\ UNCHANGED <<fileVars, fn, par, checkonly, fs0, fs, todo, ch, chClosed, writes, mainPc, collPc,
                   doneClosed, exit>>

\* task i: return true, ioutil.WriteFile(path, b, fmode)
WriteTask(i) ==
    /\ exit = "none" /\ tasks[i].pc = "write"
    /\ LET f == tasks[i].f
           w == WriteFile(fs[f.path], tasks[i].wdata, f.mode)
       IN  /\ fs' = [fs EXCEPT ![f.path] = w.file]
           /\ Return(i, w.err, <<>>)
    /\ writes' = writes + 1
    /\ UNCHANGED <<fileVars, fn, par, checkonly, fs0, todo, ch, chClosed, mainPc, collPc,
                   doneClosed, exit>>

NextRun ==
    \/ ResolveTemplate
    \/ Walk
    \/ CloseCh
    \/ MainReturn
    \/ Receive
    \/ RangeEnd
    \/ Wait
    \/ CloseDone
    \/ ExitOnErr
    \/ \E i \in 1..Len(tasks) : StartTask(i)
    \/ \E i \in 1..Len(tasks) : WriteTask(i)

SpecRun == InitRun /\ [][NextRun]_vars

\* C2: when a run whose template was resolved has ended, its exit status is
\* 1 if and only if at least one task returned an error.
C2_ExitStatusIffTaskFailed ==
    (exit # "none" /\ mainPc # "fatal")
        => (exit = "1" <=> \E i \in 1..Len(tasks) : tasks[i].err # "nil")

\* C3: in a run with the check flag no step changes the content or the
\* permissions of a file, and no task calls WriteFile.
C3_CheckModeWritesNothing ==
    [][checkonly => (fs' = fs /\ writes' = writes)]_vars

\* a task of a check run has reported a writable file without license
C3_Witness ==
    /\ checkonly
    /\ \E i \in 1..Len(tasks) :
          /\ tasks[i].pc = "done"
          /\ tasks[i].err = "missing license header"
          /\ fs[tasks[i].f.path] = [content |-> <<>>, perm |-> "rw"]

\* C15: the process ends, with either status, only when the channel is empty
\* and every task that was started has returned; when it is not log.Fatal on
\* the template that ends it, walk has delivered every file and the channel
\* is closed.
C15_DrainBeforeExit ==
    exit # "none"
        => /\ ch = <<>>
           /\ \A i \in 1..Len(tasks) : tasks[i].pc = "done"
           /\ mainPc # "fatal" => (todo = <<>> /\ chClosed)

\* a run of two tasks, the first failed, the second not, has ended with 1
C15_Witness ==
    /\ exit = "1" /\ Len(tasks) = 2
    /\ tasks[1].err # "nil" /\ tasks[2].err = "nil"
    /\ tasks[1].f.path # tasks[2].f.path

\* what the worker does to the file at p when no other task runs: the error
\* it returns and the file it leaves
Alone(p) ==
    LET r == startTask(checkonly, p, cfg.update, fs0[p].perm, cfg.tmpl, cfg.data, fs0[p])
        w == WriteFile(fs0[p], r.wdata, fs0[p].perm)
    IN  IF r.wrote THEN [err |-> w.err, file |-> w.file]
        ELSE [err |-> r.err, file |-> fs0[p]]

\* the paths of the tasks
TaskPaths == {tasks[i].f.path : i \in 1..Len(tasks)}

\* C16: every task returns the error it returns when it runs alone on the
\* file as the run found it, whatever the other tasks returned; when the
\* process ends every task has returned, the file of every task is as the
\* task alone leaves it, and the other files are as they were.
C16_FailureIsolated ==
    /\ \A i \in 1..Len(tasks) :
          tasks[i].pc = "done" => tasks[i].err = Alone(tasks[i].f.path).err
    /\ exit # "none"
          => /\ \A i \in 1..Len(tasks) : tasks[i].pc = "done"
             /\ \A p \in DOMAIN fs :
                   fs[p] = IF p \in TaskPaths THEN Alone(p).file ELSE fs0[p]

\* a task has written its file after another task had failed
C16_Witness ==
    /\ exit # "none" /\ Len(tasks) = 2
    /\ tasks[1].err # "nil" /\ tasks[2].err = "nil"
    /\ fs[tasks[2].f.path] # fs0[tasks[2].f.path]
    /\ writes = 1

\* C17: no two tasks are, at the same time, between their read and their
\* write of the same path.
C17_OneWorkerPerPath ==
    \A i, j \in 1..Len(tasks) :
        (i # j /\ tasks[i].pc = "write" /\ tasks[j].pc = "write")
            => tasks[i].f.path # tasks[j].f.path

\* C20: the permissions of every file stay the ones it had when the run
\* began, which are the ones walk passes to the task, whether the task
\* inserts, updates, leaves the file alone or fails.
C20_ModePreserved ==
    /\ \A p \in DOMAIN fs : fs[p].perm = fs0[p].perm
    /\ \A i \in 1..Len(tasks) : tasks[i].f.mode = fs0[tasks[i].f.path].perm

\* an executable file has got its header
C20_Witness ==
    \E i \in 1..Len(tasks) :
        /\ tasks[i].pc = "done" /\ tasks[i].err = "nil"
        /\ fs0[tasks[i].f.path].perm = "rwx"
        /\ fs[tasks[i].f.path].content # fs0[tasks[i].f.path].content

\* the template of the flags cannot be had: the template file is missing or
\* does not parse, or no template file is given and the license name is not
\* the name of a built-in template
TemplateUnusable ==
    \/ cfg.licensef \in {nonePath, badPath}
    \/ cfg.licensef = <<>> /\ Str(cfg.license) \notin builtinNames

\* C21: in a run whose template cannot be fetched or parsed no file is ever
\* sent on the channel, given to a task, read or written, every file stays as
\* it was, and once main has tried to resolve the template the process has
\* ended with status 1.
C21_TemplateErrorsFatal ==
    TemplateUnusable
        => /\ ch = <<>> /\ tasks = <<>> /\ writes = 0 /\ fs = fs0
           /\ mainPc # "start" => (mainPc = "fatal" /\ exit = "1")

\* a run over two files has ended on a template file that does not parse
C21_Witness ==
    /\ mainPc = "fatal" /\ exit = "1"
    /\ cfg.licensef = badPath
    /\ Len(todo) = 2

----------------------------------------------------------------------------
(* The pipeline of main with its files counted: how many walk has still to *)
(* deliver, how many the channel holds, how many are in a task that runs   *)
(* and how many in a task that has returned. This specification has runs   *)
(* of more than chanCap files.                                             *)

\* a run of par.todo files at the moment the collector goroutine is started,
\* or a run of chanCap files more at the moment main has sent chanCap files,
\* the collector has started a task for each and no task has returned yet
InitPar ==
    /\ par \in {[todo |-> n, ch |-> 0, running |-> r, done |-> 0] :
                  n \in 0..MaxFiles, r \in {0, chanCap}}
    /\ checkonly = FALSE
    /\ fs0 = <<>>
    /\ fs = <<>>
    /\ todo = <<>>
    /\ ch = <<>>
    /\ chClosed = FALSE
    /\ tasks = <<>>
    /\ gErr = "nil"
    /\ writes = 0
    /\ mainPc = "walk"
    /\ collPc = "range"
    /\ doneClosed = FALSE
    /\ exit = "none"
    /\ cfg = someConfig
    /\ path = <<>>
    /\ file = [content |-> <<>>, perm |-> "rw"]
    /\ adds = 0
    /\ last = noOp
    /\ fn = noCall

\* walk: ch <- &file{path, fi.Mode()}, which blocks while the channel is full
WalkN ==
    /\ exit = "none" /\ mainPc = "walk"
    /\ par.todo > 0
    /\ par.ch < chanCap
    /\ par' = [par EXCEPT !.todo = @ - 1, !.ch = @ + 1]
    /\ UNCHANGED <<fileVars, fn, checkonly, fs0, fs, todo, ch, chClosed, tasks, gErr, writes,
                   mainPc, collPc, doneClosed, exit>>

\* main going on to <-done without close(ch)
CloseChN_notClosed ==
    /\ exit = "none" /\ mainPc = "walk"
    /\ par.todo = 0
    /\ mainPc' = "recv"
    /\ UNCHANGED <<fileVars, fn, par, checkonly, fs0, fs, todo, ch, chClosed, tasks, gErr,
                   writes, collPc, doneClosed, exit>>

\* main: close(ch) after the last walk
CloseChN ==
    /\ exit = "none" /\ mainPc = "walk"
    /\ par.todo = 0
    /\ chClosed' = TRUE
    /\ mainPc' = "recv"
    /\ UNCHANGED <<fileVars, fn, par, checkonly, fs0, fs, todo, ch, tasks, gErr, writes,
                   collPc, doneClosed, exit>>

\* collector: for f := range ch { wg.Go(...) }: wg.Go starts the goroutine of
\* the task at once, however many tasks are running
ReceiveN ==
    /\ exit = "none" /\ collPc = "range"
    /\ par.ch > 0
    /\ par' = [par EXCEPT !.ch = @ - 1, !.running = @ + 1]
    /\ UNCHANGED <<fileVars, fn, checkonly, fs0, fs, todo, ch, chClosed, tasks, gErr, writes,
                   mainPc, collPc, doneClosed, exit>>

\* collector: the range loop ends on the closed, drained channel
RangeEndN ==
    /\ exit = "none" /\ collPc = "range"
    /\ par.ch = 0 /\ chClosed
    /\ collPc' = "wait"
    /\ UNCHANGED <<fileVars, fn, par, checkonly, fs0, fs, todo, ch, chClosed, tasks, gErr,
                   writes, mainPc, doneClosed, exit>>

\* a task returns, with an error or without; the errgroup keeps the first
\* error
FinishN ==
    /\ exit = "none"
    /\ par.running > 0
    /\ par' = [par EXCEPT !.running = @ - 1, !.done = @ + 1]
    /\ \E e \in {"nil", "missing license header"} :
          gErr' = IF gErr = "nil" THEN e ELSE gErr
    /\ UNCHANGED <<fileVars, fn, checkonly, fs0, fs, todo, ch, chClosed, tasks, writes,
                   mainPc, collPc, doneClosed, exit>>

\* collector: err := wg.Wait() returns when every task has returned
WaitN ==
    /\ exit = "none" /\ collPc = "wait"
    /\ par.running = 0
    /\ collPc' = "closeDone"
    /\ UNCHANGED <<fileVars, fn, par, checkonly, fs0, fs, todo, ch, chClosed, tasks, gErr,
                   writes, mainPc, doneClosed, exit>>

NextPar ==
    \/ WalkN
    \/ CloseChN
    \/ MainReturn
    \/ ReceiveN
    \/ RangeEndN
    \/ FinishN
    \/ WaitN
    \/ CloseDone
    \/ ExitOnErr

SpecPar == InitPar /\ [][NextPar]_vars

\* every goroutine that can run does run: main, the collector and the tasks,
\* whose calls of the file system return
SpecParFair ==
    /\ InitPar /\ [][NextPar]_vars
    /\ WF_vars(WalkN) /\ WF_vars(CloseChN) /\ WF_vars(MainReturn)
    /\ WF_vars(ReceiveN) /\ WF_vars(RangeEndN) /\ WF_vars(WaitN)
    /\ WF_vars(CloseDone) /\ WF_vars(ExitOnErr)
    /\ WF_vars(FinishN)

\* C23: at no point of a run are more than 1000 tasks, the capacity of the
\* channel, running at the same time, however many files walk delivers.
C23_AtMostCapInParallel ==
    par.running <= chanCap

====
